---- MODULE Spec2Model ----
(***************************************************************************)
(* A model of archivus (src/lib.rs): the FileInfo record, the filter       *)
(* predicate, the wildcard matcher, the directory listing engine, the      *)
(* statistics and grouping folds, format_bytes and the read, write and     *)
(* update operations.                                                      *)
(*                                                                         *)
(* Characters are Unicode code points (integers), strings are sequences of *)
(* code points.  A Rust `str::len()` is the UTF-8 byte length of the       *)
(* string, `chars().count()` is the length of the sequence.                *)
(***************************************************************************)
EXTENDS Integers, Sequences, FiniteSets, TLC

VARIABLES
    entry,      \* SpecFilter: the FileInfo handed to matches_filter
    filter,     \* SpecFilter: the FileFilter handed to matches_filter
    accepted,   \* SpecFilter: the boolean matches_filter returned (once pc = "done")
    name,       \* SpecPattern: the name handed to matches_pattern
    pattern,    \* SpecPattern: the pattern handed to matches_pattern
    matched,    \* SpecPattern: the outcome of matches_pattern (once pc = "done")
    pc,         \* "ready" before the call under check, "running", "done" after it
    fs,         \* the filesystem: what each path holds
    call,       \* the listing call under check: operation and arguments
    stack,      \* the frames of the listing loops in progress, innermost last
    trace,      \* the paths stat'ed with success so far, in order (history)
    result,     \* what the call returned (once pc = "done")
    budget,     \* removals the external process may still make
    raced,      \* the entry removed between its enumeration and its stat, if any
    first,      \* SpecPair: what the first call of the pair returned
    stats,      \* the DirectoryStats directory_stats returned (once pc = "done")
    files,      \* SpecGroup: the Vec<FileInfo> handed to group_by_extension
    groups,     \* SpecGroup: the map group_by_extension returned
    bytes,      \* SpecFormat: the number handed to format_bytes, base-1024 digits
    formatted,  \* SpecFormat: what format_bytes returned
    disk,       \* SpecIO: what each path holds, with the bytes of the files
    fresh,      \* SpecIO: the last write_string / write_bytes nothing has touched since
    readback    \* SpecIO: what the last read or list_all returned

pureVars == <<entry, filter, accepted, name, pattern, matched>>
listVars == <<fs, call, stack, trace, result, budget, raced, first, stats>>
groupVars == <<files, groups>>
formatVars == <<bytes, formatted>>
ioVars == <<disk, fresh, readback>>
vars == <<entry, filter, accepted, name, pattern, matched, pc,
          fs, call, stack, trace, result, budget, raced, first, stats,
          files, groups, bytes, formatted, disk, fresh, readback>>

(***************************************************************************)
(* Bounds of the model.                                                    *)
(***************************************************************************)
MaxSize == 2
MaxNameLen == 3
MaxPatLen == 3
MaxExternal == 1
MaxStars == 3
MaxFiles == 3
MaxContent == 2
MaxSymlinks == 2

\* Option<T>: None is the empty sequence, Some(x) the one-element sequence.
None == <<>>
Some(x) == <<x>>

(***************************************************************************)
(* Characters.                                                             *)
(***************************************************************************)
Star == 42
Question == 63
Dot == 46

\* 'a', 'A', 'b', and the two-byte characters U+00C9 (upper case) and
\* U+00E9 (its lower case).
NameChars == {97, 65, 98, 201}
PatternChars == {97, 65, 233, Star, Question}

\* char::to_lowercase on the characters of the model (ASCII and Latin-1).
ToLowerChar(c) ==
    IF c \in 65..90 THEN c + 32
    ELSE IF c \in 192..222 /\ c # 215 THEN c + 32
    ELSE c

\* str::to_lowercase
to_lowercase(s) == [i \in 1..Len(s) |-> ToLowerChar(s[i])]

\* The number of bytes of the UTF-8 encoding of a character.
Utf8Len(c) ==
    IF c < 128 THEN 1 ELSE IF c < 2048 THEN 2 ELSE IF c < 65536 THEN 3 ELSE 4

RECURSIVE ByteLen(_)
\* str::len(): the length in bytes
ByteLen(s) == IF s = <<>> THEN 0 ELSE Utf8Len(Head(s)) + ByteLen(Tail(s))

\* str::contains(char)
Contains(s, c) == \E i \in 1..Len(s) : s[i] = c

SeqsUpTo(S, n) == UNION {[1..k -> S] : k \in 0..n}

(***************************************************************************)
(* FileInfo::new: the record built from a path's last component and the    *)
(* metadata the stat returned.                                             *)
(***************************************************************************)
\* The index of the last '.' of s, 0 when there is none.
LastDot(s) ==
    IF Contains(s, Dot)
    THEN CHOOSE i \in 1..Len(s) : s[i] = Dot /\ \A j \in (i+1)..Len(s) : s[j] # Dot
    ELSE 0

\* Path::extension: the part after the last '.', None when there is no '.'
\* or when the only '.' is the first character of the name.
PathExtension(s) ==
    IF LastDot(s) <= 1 THEN None
    ELSE Some(SubSeq(s, LastDot(s) + 1, Len(s)))

\* kind is what fs::metadata reports: "file", "dir" or "other" (a socket, a
\* FIFO, a device: neither is_dir() nor is_file()).
FileInfo_new(path, fname, kind, size) ==
    [ path |-> path,
      name |-> fname,
      extension |-> IF PathExtension(fname) = None THEN None
                    ELSE Some(to_lowercase(PathExtension(fname)[1])),
      size |-> size,
      is_directory |-> (kind = "dir"),
      is_file |-> (kind = "file") ]

(***************************************************************************)
(* FileUtils::matches_filter                                               *)
(***************************************************************************)
\* The mutant: an exclusive lower bound and an extension test on every entry.
matches_filter_strict(file_info, flt) ==
    /\ ~(file_info.is_file /\ ~flt.include_files)
    /\ ~(file_info.is_directory /\ ~flt.include_directories)
    /\ (flt.extensions # None =>
          /\ file_info.extension # None
          /\ \E allowed \in flt.extensions[1] :
                to_lowercase(allowed) = to_lowercase(file_info.extension[1]))
    /\ (flt.min_size # None => file_info.size > flt.min_size[1])
    /\ (flt.max_size # None => file_info.size <= flt.max_size[1])

matches_filter(file_info, flt) ==
    IF file_info.is_file /\ ~flt.include_files THEN FALSE
    ELSE IF file_info.is_directory /\ ~flt.include_directories THEN FALSE
    ELSE IF /\ flt.extensions # None
            /\ file_info.is_file
            /\ \/ file_info.extension = None
               \/ ~\E allowed \in flt.extensions[1] :
                     to_lowercase(allowed) = to_lowercase(file_info.extension[1])
         THEN FALSE
    ELSE IF flt.min_size # None /\ file_info.size < flt.min_size[1] THEN FALSE
    ELSE IF flt.max_size # None /\ file_info.size > flt.max_size[1] THEN FALSE
    ELSE TRUE

(***************************************************************************)
(* FileUtils::matches_pattern and the wildcard matcher.  A call's outcome  *)
(* is [panic, val, calls]: whether it panicked (an index out of bounds),   *)
(* the boolean it returned otherwise, and the number of invocations of     *)
(* wildcard_match_recursive it made.                                       *)
(***************************************************************************)
Returned(b, n) == [panic |-> FALSE, val |-> b, calls |-> n]
Panicked(n) == [panic |-> TRUE, val |-> FALSE, calls |-> n]

RECURSIVE wildcard_match_recursive(_, _, _, _)
RECURSIVE StarLoop(_, _, _, _)

\* The body of `for i in text_idx..=text_chars.len()`, from i on.
StarLoop(text, pat, i, pattern_idx) ==
    IF i > Len(text) THEN Returned(FALSE, 0)
    ELSE LET r == wildcard_match_recursive(text, pat, i, pattern_idx + 1)
         IN  IF r.panic \/ r.val THEN r
             ELSE LET rest == StarLoop(text, pat, i + 1, pattern_idx)
                  IN  [rest EXCEPT !.calls = @ + r.calls]

\* text_idx and pattern_idx are 0-based, as in the source.
wildcard_match_recursive(text, pat, text_idx, pattern_idx) ==
    IF pattern_idx = ByteLen(pat) THEN Returned(text_idx = ByteLen(text), 1)
    ELSE IF pattern_idx >= Len(pat) THEN Panicked(1)
    ELSE IF pat[pattern_idx + 1] = Star THEN
        LET r == StarLoop(text, pat, text_idx, pattern_idx)
        IN  [r EXCEPT !.calls = @ + 1]
    ELSE IF pat[pattern_idx + 1] = Question THEN
        IF text_idx < Len(text)
        THEN LET r == wildcard_match_recursive(text, pat, text_idx + 1, pattern_idx + 1)
             IN  [r EXCEPT !.calls = @ + 1]
        ELSE Returned(FALSE, 1)
    ELSE
        IF text_idx < Len(text) /\ text[text_idx + 1] = pat[pattern_idx + 1]
        THEN LET r == wildcard_match_recursive(text, pat, text_idx + 1, pattern_idx + 1)
             IN  [r EXCEPT !.calls = @ + 1]
        ELSE Returned(FALSE, 1)

wildcard_match(text, pat) ==
    wildcard_match_recursive(to_lowercase(text), to_lowercase(pat), 0, 0)

\* The mutant: the fast path lowercases the pattern and not the name.
matches_pattern_casebug(fname, pat) ==
    IF pat = <<Star>> THEN Returned(TRUE, 0)
    ELSE IF ~Contains(pat, Star) /\ ~Contains(pat, Question)
         THEN Returned(fname = to_lowercase(pat), 0)
    ELSE wildcard_match(fname, pat)

matches_pattern(fname, pat) ==
    IF pat = <<Star>> THEN Returned(TRUE, 0)
    ELSE IF ~Contains(pat, Star) /\ ~Contains(pat, Question)
         THEN Returned(to_lowercase(fname) = to_lowercase(pat), 0)
    ELSE wildcard_match(fname, pat)

(***************************************************************************)
(* The filesystem.  Paths are the nodes of a fixed tree: 0 is the          *)
(* directory the tree hangs from, Parent gives the directory of every      *)
(* other path.  What a path holds is fs[n]:                                *)
(*   "absent"  nothing                                                     *)
(*   "file"    a regular file                                              *)
(*   "dir"     a directory                                                 *)
(*   "locked"  a directory that cannot be opened (no read permission)      *)
(*   "other"   a FIFO, a socket, a device: stat succeeds, neither a file   *)
(*             nor a directory                                             *)
(*   "broken"  a symbolic link to nothing: read_dir yields it, stat (which *)
(*             follows links) fails with NotFound                          *)
(***************************************************************************)
Nodes == 1..5
Parent == <<0, 0, 1, 1, 3>>

\* "d.t", "É.T", "A", "b.t", "a.t"
NodeName ==
    << <<100, Dot, 116>>, <<201, Dot, 84>>, <<65>>, <<98, Dot, 116>>, <<97, Dot, 116>> >>

NodeKinds ==
    << {"absent", "dir"},
       {"absent", "file", "broken"},
       {"absent", "file", "dir"},
       {"absent", "file", "other", "locked"},
       {"absent", "file"} >>

\* metadata.len() of a path
NodeSize(n) == n % (MaxSize + 1)

KindAt(f, n) == IF n = 0 THEN "dir" ELSE f[n]

\* The filesystems of the model: every path that holds something lies in a
\* directory.
Filesystems ==
    { f \in [Nodes -> {"absent", "file", "dir", "locked", "other", "broken"}] :
        \A n \in Nodes :
            /\ f[n] \in NodeKinds[n]
            /\ f[n] # "absent" => KindAt(f, Parent[n]) = "dir" }

\* What read_dir(d) yields.
Children(f, d) == {n \in Nodes : Parent[n] = d /\ f[n] # "absent"}

\* A path of kind "loop" is a symbolic link to the directory two levels up,
\* an ancestor of the link.
LinkTarget(n) == Parent[Parent[n]]

\* The filesystems with such links at the paths 4 and 5.
LoopFilesystems ==
    { f \in [Nodes -> {"absent", "file", "dir", "locked", "other", "broken", "loop"}] :
        \A n \in Nodes :
            /\ f[n] \in NodeKinds[n] \cup (IF n \in {4, 5} THEN {"loop"} ELSE {})
            /\ f[n] # "absent" => KindAt(f, Parent[n]) = "dir" }

\* The directory a path stands for: links are followed.
Resolve(f, d) == IF KindAt(f, d) = "loop" THEN LinkTarget(d) ELSE d

\* What read_dir(d) yields when d may be a link to a directory.
Entries(f, d) == Children(f, Resolve(f, d))

\* The symbolic links in the path of n, reached through the directories of
\* the loops in progress.
LinkCount(f, st, n) ==
    Cardinality({i \in 1..Len(st) : KindAt(f, st[i].dir) = "loop"})
        + (IF KindAt(f, n) = "loop" THEN 1 ELSE 0)

RECURSIVE IsBelow(_, _)
\* n lies below d, at any depth.
IsBelow(n, d) == n # 0 /\ (Parent[n] = d \/ IsBelow(Parent[n], d))

Descendants(f, d) == {n \in Nodes : f[n] # "absent" /\ IsBelow(n, d)}

\* The io::ErrorKind of a failed fs::metadata(n), None when it succeeds.
StatError(f, n) ==
    IF KindAt(f, n) \in {"absent", "broken"} THEN Some("NotFound") ELSE None

\* The same for a path reached through links: the host resolves at most
\* MaxSymlinks links in one path and fails beyond (ELOOP).
PathError(f, st, n) ==
    IF StatError(f, n) # None THEN StatError(f, n)
    ELSE IF LinkCount(f, st, n) > MaxSymlinks THEN Some("FilesystemLoop")
    ELSE None

\* The io::ErrorKind of a failed fs::read_dir(d), None when it succeeds.
ReadDirError(f, d) ==
    CASE KindAt(f, d) \in {"dir", "loop"} -> None
      [] KindAt(f, d) = "locked" -> Some("PermissionDenied")
      [] KindAt(f, d) \in {"absent", "broken"} -> Some("NotFound")
      [] OTHER -> Some("NotADirectory")

\* What metadata.is_dir() / is_file() see.
StatKind(k) == IF k \in {"dir", "locked", "loop"} THEN "dir" ELSE k

\* FileInfo::new(path) on a path whose stat succeeds.
InfoOf(f, n) == FileInfo_new(n, NodeName[n], StatKind(f[n]), NodeSize(n))

\* The mutant: every failure becomes an IoError.
From_io_Error_flat(kind) == "IoError"

\* impl From<io::Error> for FileUtilsError
From_io_Error(kind) ==
    CASE kind = "NotFound" -> "NotFound"
      [] kind = "PermissionDenied" -> "PermissionDenied"
      [] OTHER -> "IoError"

(***************************************************************************)
(* The calls.  A call is [op, dir, lister, filter, pattern]: the public    *)
(* operation, the directory, the loop that does the listing ("list_files", *)
(* "list_directories", "list_all", "simple" for list_with_filter_simple,   *)
(* "recursive" for list_with_filter_recursive), the filter that loop uses  *)
(* and find_by_name's pattern.                                             *)
(***************************************************************************)
DefaultFilter ==
    [ extensions |-> None, min_size |-> None, max_size |-> None,
      include_directories |-> TRUE, include_files |-> TRUE, recursive |-> FALSE ]

\* FileUtils::list_with_filter: the loop it dispatches to.
list_with_filter(flt) == IF flt.recursive THEN "recursive" ELSE "simple"

\* The mutant: without recursion find_by_name lists the files only.
find_by_name_files(dir, pat, recursive) ==
    IF recursive
    THEN [ op |-> "find_by_name", dir |-> dir,
           lister |-> list_with_filter([DefaultFilter EXCEPT !.recursive = TRUE]),
           filter |-> [DefaultFilter EXCEPT !.recursive = TRUE], pattern |-> pat ]
    ELSE [ op |-> "find_by_name", dir |-> dir, lister |-> "list_files",
           filter |-> DefaultFilter, pattern |-> pat ]

find_by_name(dir, pat, recursive) ==
    IF recursive
    THEN [ op |-> "find_by_name", dir |-> dir,
           lister |-> list_with_filter([DefaultFilter EXCEPT !.recursive = TRUE]),
           filter |-> [DefaultFilter EXCEPT !.recursive = TRUE], pattern |-> pat ]
    ELSE [ op |-> "find_by_name", dir |-> dir, lister |-> "list_all",
           filter |-> DefaultFilter, pattern |-> pat ]

find_by_extension(dir, extension, recursive) ==
    LET flt == [DefaultFilter EXCEPT !.extensions = Some({extension}),
                                     !.include_directories = FALSE,
                                     !.include_files = TRUE,
                                     !.recursive = recursive]
    IN  [ op |-> "find_by_extension", dir |-> dir, lister |-> list_with_filter(flt),
          filter |-> flt, pattern |-> <<>> ]

find_by_size(dir, min_size, max_size, recursive) ==
    LET flt == [DefaultFilter EXCEPT !.min_size = min_size,
                                     !.max_size = max_size,
                                     !.include_directories = FALSE,
                                     !.include_files = TRUE,
                                     !.recursive = recursive]
    IN  [ op |-> "find_by_size", dir |-> dir, lister |-> list_with_filter(flt),
          filter |-> flt, pattern |-> <<>> ]

\* FileUtils::directory_stats: the listing it folds, recursive and unfiltered.
directory_stats(dir) ==
    LET flt == [DefaultFilter EXCEPT !.recursive = TRUE]
    IN  [ op |-> "directory_stats", dir |-> dir, lister |-> list_with_filter(flt),
          filter |-> flt, pattern |-> <<>> ]

PlainCall(op, dir) ==
    [ op |-> op, dir |-> dir, lister |-> op, filter |-> DefaultFilter, pattern |-> <<>> ]

FilterCall(dir, flt) ==
    [ op |-> "list_with_filter", dir |-> dir, lister |-> list_with_filter(flt),
      filter |-> flt, pattern |-> <<>> ]

\* The size bounds of the model's calls: none, a lower one, an upper one, both.
SizeBounds ==
    {<<None, None>>}
        \cup {<<Some(k), None>> : k \in 0..MaxSize}
        \cup {<<None, Some(k)>> : k \in 0..MaxSize}
        \cup {<<Some(k), Some(k)>> : k \in 0..MaxSize}

\* The filters of the model's list_with_filter calls; ["T"] is the one
\* extension list.
ListFilters ==
    { [ extensions |-> e, min_size |-> b[1], max_size |-> b[2],
        include_directories |-> d, include_files |-> fl, recursive |-> r ] :
        e \in {None, Some({<<84>>})}, b \in SizeBounds,
        d \in BOOLEAN, fl \in BOOLEAN, r \in BOOLEAN }

\* "*", "a.t", "?.t", "*.t", "é*"
NamePatterns ==
    { <<Star>>, <<97, Dot, 116>>, <<Question, Dot, 116>>, <<Star, Dot, 116>>,
      <<233, Star>> }

Calls ==
    {PlainCall(op, 0) : op \in {"list_files", "list_directories", "list_all"}}
        \cup {FilterCall(0, flt) : flt \in ListFilters}
        \cup {find_by_name(0, p, r) : p \in NamePatterns, r \in BOOLEAN}
        \cup {find_by_extension(0, <<84>>, r) : r \in BOOLEAN}
        \cup {find_by_size(0, b[1], b[2], r) : b \in SizeBounds, r \in BOOLEAN}
        \cup {directory_stats(0)}

\* The calls of the specification with the external process: one filter.
RaceCalls ==
    {PlainCall(op, 0) : op \in {"list_files", "list_directories", "list_all"}}
        \cup {FilterCall(0, [DefaultFilter EXCEPT !.recursive = r]) : r \in BOOLEAN}
        \cup {find_by_name(0, <<Star, Dot, 116>>, TRUE)}
        \cup {find_by_extension(0, <<84>>, TRUE)}
        \cup {find_by_size(0, None, Some(1), TRUE)}
        \cup {directory_stats(0)}

(***************************************************************************)
(* The listing loops.  The five loops (list_files, list_directories,       *)
(* list_all, list_with_filter_simple, list_with_filter_recursive) have the *)
(* same shape: read_dir, then per entry a stat, a test and a push; they    *)
(* differ in the test and in the recursion.  A frame is one loop in        *)
(* progress: [dir, opened, todo, cur, items].                              *)
(***************************************************************************)
NewFrame(d) == [dir |-> d, opened |-> FALSE, todo |-> {}, cur |-> None, items |-> <<>>]

Top == stack[Len(stack)]

SetTop(fr) == [stack EXCEPT ![Len(stack)] = fr]

\* The mutant: a directory the test rejects is not walked.
VisitEntry_prune(c, info) ==
    LET push == CASE c.lister = "list_files" -> info.is_file
                  [] c.lister = "list_directories" -> info.is_directory
                  [] c.lister = "list_all" -> TRUE
                  [] OTHER -> matches_filter(info, c.filter)
    IN  [ push |-> push,
          descend |-> c.lister = "recursive" /\ info.is_directory /\ push ]

\* The body of the loop after the stat: whether the entry is pushed on the
\* result, and whether the loop recurses into it.
VisitEntry(c, info) ==
    [ push |-> CASE c.lister = "list_files" -> info.is_file
                 [] c.lister = "list_directories" -> info.is_directory
                 [] c.lister = "list_all" -> TRUE
                 [] OTHER -> matches_filter(info, c.filter),
      descend |-> c.lister = "recursive" /\ info.is_directory ]

\* The mutant: the entries of the subdirectory go before those collected so far.
Collect_front(items, sub_items) == sub_items \o items

\* The mutant: what the recursive call returned is thrown away.
Collect_lost(items, sub_items) == items

\* filtered_items.append(&mut sub_items)
Collect(items, sub_items) == items \o sub_items

\* The mutant: a failure ends the loop with what was collected so far.
Propagate_partial(kind, collected) ==
    [status |-> "ok", error |-> None, items |-> collected]

\* The `?` operator on a failed read_dir, entry or stat: the error is
\* converted and returned; what the loops collected is dropped.
Propagate(kind, collected) ==
    [status |-> "err", error |-> Some(From_io_Error(kind)), items |-> <<>>]

Ok(items) == [status |-> "ok", error |-> None, items |-> items]

NoResult == [status |-> "none", error |-> None, items |-> <<>>]

\* Everything the frames of the stack hold, outermost first.
RECURSIVE Collected(_)
Collected(st) ==
    IF st = <<>> THEN <<>> ELSE Head(st).items \o Collected(Tail(st))

\* What the public operation does with the items its loop returned:
\* find_by_name keeps those whose name matches_pattern accepts (a panic of
\* the matcher unwinds the call), the others return them as they are.
Finish(c, items) ==
    IF c.op = "find_by_name"
    THEN IF \E i \in 1..Len(items) : matches_pattern(items[i].name, c.pattern).panic
         THEN [status |-> "panic", error |-> None, items |-> <<>>]
         ELSE Ok(SelectSeq(items, LAMBDA it : matches_pattern(it.name, c.pattern).val))
    ELSE IF c.op = "directory_stats" THEN Ok(<<>>)
    ELSE Ok(items)

\* DirectoryStats::default()
DirectoryStats_default ==
    [ file_count |-> 0, directory_count |-> 0, total_size |-> 0,
      largest_file_size |-> 0, largest_file_name |-> None,
      extensions |-> [x \in {} |-> 0] ]

\* *map.entry(key).or_insert(0) += 1
CountUp(map, key) ==
    [x \in DOMAIN map \cup {key} |->
        IF x = key THEN (IF key \in DOMAIN map THEN map[key] ELSE 0) + 1 ELSE map[x]]

\* The loop body if the extension were counted before the test of is_file,
\* so that a directory named "d.t" is counted under "t".
Tally_any(st, item) ==
    LET keyed == [st EXCEPT !.extensions = IF item.extension # None
                                           THEN CountUp(@, item.extension[1])
                                           ELSE @]
    IN  IF item.is_file
        THEN LET counted == [keyed EXCEPT !.file_count = @ + 1,
                                          !.total_size = @ + item.size]
             IN  IF item.size > st.largest_file_size
                 THEN [counted EXCEPT !.largest_file_size = item.size,
                                      !.largest_file_name = Some(item.name)]
                 ELSE counted
        ELSE [keyed EXCEPT !.directory_count = @ + 1]

\* The body of directory_stats' loop for one item.
Tally(st, item) ==
    IF item.is_file
    THEN LET counted ==
                 [st EXCEPT !.file_count = @ + 1,
                            !.total_size = @ + item.size,
                            !.extensions = IF item.extension # None
                                           THEN CountUp(@, item.extension[1])
                                           ELSE @]
         IN  IF item.size > st.largest_file_size
             THEN [counted EXCEPT !.largest_file_size = item.size,
                                  !.largest_file_name = Some(item.name)]
             ELSE counted
    ELSE [st EXCEPT !.directory_count = @ + 1]

RECURSIVE TallyAll(_, _)
\* for item in all_items { ... }
TallyAll(st, items) ==
    IF items = <<>> THEN st ELSE TallyAll(Tally(st, Head(items)), Tail(items))

\* What directory_stats returns for the listing all_items.
StatsOf(c, all_items, old) ==
    IF c.op = "directory_stats" THEN TallyAll(DirectoryStats_default, all_items) ELSE old

ListingIdle ==
    /\ fs = [n \in Nodes |-> "absent"]
    /\ call = PlainCall("list_all", 0)
    /\ stack = <<>>
    /\ trace = <<>>
    /\ result = NoResult
    /\ budget = 0
    /\ raced = None
    /\ first = NoResult
    /\ stats = DirectoryStats_default

\* A call starts: its loop is entered, its directory not yet opened.
Begin ==
    /\ pc = "ready"
    /\ pc' = "running"
    /\ stack' = <<NewFrame(call.dir)>>
    /\ UNCHANGED <<fs, call, trace, result, budget, raced, pureVars, first, stats, groupVars, formatVars, ioVars>>

Call_list_files ==
    /\ call.op = "list_files"
    /\ Begin

Call_list_directories ==
    /\ call.op = "list_directories"
    /\ Begin

Call_list_all ==
    /\ call.op = "list_all"
    /\ Begin

Call_list_with_filter ==
    /\ call.op = "list_with_filter"
    /\ Begin

Call_find_by_name ==
    /\ call.op = "find_by_name"
    /\ Begin

Call_find_by_extension ==
    /\ call.op = "find_by_extension"
    /\ Begin

Call_find_by_size ==
    /\ call.op = "find_by_size"
    /\ Begin

Call_directory_stats ==
    /\ call.op = "directory_stats"
    /\ Begin

\* The mutant: the failed call is made again, and again.
Abort_retry(kind) == UNCHANGED <<result, stack, pc>>

\* The call ends with an error.
Abort(kind) ==
    /\ result' = Propagate(kind, Collected(stack))
    /\ stack' = <<>>
    /\ pc' = "done"

\* fs::read_dir(dir_path)? at the head of a loop.
ReadDir ==
    /\ pc = "running"
    /\ ~Top.opened
    /\ IF ReadDirError(fs, Top.dir) # None
       THEN Abort(ReadDirError(fs, Top.dir)[1])
       ELSE /\ stack' = SetTop([Top EXCEPT !.opened = TRUE,
                                           !.todo = Entries(fs, Top.dir)])
            /\ UNCHANGED <<result, pc>>
    /\ UNCHANGED <<fs, call, trace, budget, raced, pureVars, first, stats, groupVars, formatVars, ioVars>>

\* The iterator yields its next entry, in whatever order.
ReadDirNext ==
    /\ pc = "running"
    /\ Top.opened
    /\ Top.cur = None
    /\ \E n \in Top.todo :
          stack' = SetTop([Top EXCEPT !.todo = @ \ {n}, !.cur = Some(n)])
    /\ UNCHANGED <<fs, call, trace, result, budget, raced, pc, pureVars, first, stats, groupVars, formatVars, ioVars>>

\* FileInfo::new(entry.path())?, the test, the push and the recursive call.
StatEntry ==
    /\ pc = "running"
    /\ Top.opened
    /\ Top.cur # None
    /\ LET n == Top.cur[1]
       IN  IF PathError(fs, stack, n) # None
           THEN /\ Abort(PathError(fs, stack, n)[1])
                /\ UNCHANGED trace
           ELSE LET info == InfoOf(fs, n)
                    v == VisitEntry(call, info)
                    fr == [Top EXCEPT !.cur = None,
                                      !.items = IF v.push THEN Append(@, info) ELSE @]
                IN  /\ stack' = IF v.descend
                                THEN Append(SetTop(fr), NewFrame(n))
                                ELSE SetTop(fr)
                    /\ trace' = Append(trace, n)
                    /\ UNCHANGED <<result, pc>>
    /\ UNCHANGED <<fs, call, budget, raced, pureVars, first, stats, groupVars, formatVars, ioVars>>

\* The loop is over: Ok(filtered_items) goes to the caller, the loop one
\* level up or the public operation.
ReturnFrame ==
    /\ pc = "running"
    /\ Top.opened
    /\ Top.cur = None
    /\ Top.todo = {}
    /\ IF Len(stack) > 1
       THEN LET up == stack[Len(stack) - 1]
            IN  /\ stack' = [SubSeq(stack, 1, Len(stack) - 1) EXCEPT
                                ![Len(stack) - 1] =
                                    [up EXCEPT !.items = Collect(@, Top.items)]]
                /\ UNCHANGED <<result, stats, pc>>
       ELSE /\ result' = Finish(call, Top.items)
            /\ stats' = StatsOf(call, Top.items, stats)
            /\ stack' = <<>>
            /\ pc' = "done"
    /\ UNCHANGED <<fs, call, trace, budget, raced, pureVars, first, groupVars, formatVars, ioVars>>

\* Another process removes a file, a link or an empty directory while the
\* call runs.
ExternalDelete ==
    /\ pc = "running"
    /\ budget > 0
    /\ \E n \in Nodes :
          /\ fs[n] # "absent"
          /\ Children(fs, n) = {}
          /\ fs' = [fs EXCEPT ![n] = "absent"]
          /\ raced' = IF Top.cur = Some(n)
                      THEN Some([node |-> n, seen |-> Len(trace)])
                      ELSE raced
    /\ budget' = budget - 1
    /\ UNCHANGED <<call, stack, trace, result, pc, pureVars, first, stats, groupVars, formatVars, ioVars>>

PureIdle ==
    /\ entry = None
    /\ filter = None
    /\ accepted = FALSE
    /\ name = <<>>
    /\ pattern = <<>>
    /\ matched = Returned(FALSE, 0)

GroupIdle ==
    /\ files = <<>>
    /\ groups = [x \in {} |-> <<>>]

FormatIdle ==
    /\ bytes = <<>>
    /\ formatted = None

IoIdle ==
    /\ disk = <<>>
    /\ fresh = None
    /\ readback = None

\* The variables of the other specifications, at rest.
Quiet == GroupIdle /\ FormatIdle /\ IoIdle

(***************************************************************************)
(* Spec: one listing call on a filesystem nothing else touches.            *)
(***************************************************************************)
Init ==
    /\ PureIdle
    /\ Quiet
    /\ first = NoResult
    /\ stats = DirectoryStats_default
    /\ pc = "ready"
    /\ fs \in Filesystems
    /\ call \in Calls
    /\ stack = <<>>
    /\ trace = <<>>
    /\ result = NoResult
    /\ budget = 0
    /\ raced = None

Steps ==
    \/ Call_list_files
    \/ Call_list_directories
    \/ Call_list_all
    \/ Call_list_with_filter
    \/ Call_find_by_name
    \/ Call_find_by_extension
    \/ Call_find_by_size
    \/ Call_directory_stats
    \/ ReadDir
    \/ ReadDirNext
    \/ StatEntry
    \/ ReturnFrame

Next == Steps

Spec == Init /\ [][Next]_vars

(***************************************************************************)
(* SpecRace: one listing call while another process removes entries.       *)
(***************************************************************************)
InitRace ==
    /\ PureIdle
    /\ Quiet
    /\ first = NoResult
    /\ stats = DirectoryStats_default
    /\ pc = "ready"
    /\ fs \in Filesystems
    /\ call \in RaceCalls
    /\ stack = <<>>
    /\ trace = <<>>
    /\ result = NoResult
    /\ budget = MaxExternal
    /\ raced = None

NextRace == Steps \/ ExternalDelete

SpecRace == InitRace /\ [][NextRace]_vars

(***************************************************************************)
(* SpecPair: two list_with_filter calls on one filesystem, the first       *)
(* without recursion on a directory D below the root, the second with      *)
(* recursion on the root, under the same filter otherwise.                 *)
(***************************************************************************)
\* The directories D of the first call.
PairDirs == {n \in Nodes : \E k \in Nodes : Parent[k] = n}

InitPair ==
    /\ PureIdle
    /\ Quiet
    /\ pc = "ready"
    /\ fs \in Filesystems
    /\ \E d \in PairDirs, flt \in ListFilters :
          /\ ~flt.recursive
          /\ call = FilterCall(d, flt)
    /\ stack = <<>>
    /\ trace = <<>>
    /\ result = NoResult
    /\ budget = 0
    /\ raced = None
    /\ first = NoResult
    /\ stats = DirectoryStats_default

\* The first call has returned: the second one is made.
CallAgain ==
    /\ pc = "done"
    /\ first = NoResult
    /\ first' = result
    /\ call' = FilterCall(0, [call.filter EXCEPT !.recursive = TRUE])
    /\ result' = NoResult
    /\ trace' = <<>>
    /\ pc' = "ready"
    /\ UNCHANGED <<fs, stack, budget, raced, stats, pureVars, groupVars, formatVars, ioVars>>

NextPair ==
    \/ Call_list_with_filter
    \/ ReadDir
    \/ ReadDirNext
    \/ StatEntry
    \/ ReturnFrame
    \/ CallAgain

SpecPair == InitPair /\ [][NextPair]_vars

(***************************************************************************)
(* SpecGroup: group_by_extension applied to every bounded list of entries. *)
(***************************************************************************)
\* "sem_extensao"
SemExtensao == <<115, 101, 109, 95, 101, 120, 116, 101, 110, 115, 97, 111>>

\* file.extension.clone().unwrap_or_else(|| "sem_extensao".to_string())
GroupKey(file) == IF file.extension # None THEN file.extension[1] ELSE SemExtensao

\* groups.entry(ext).or_insert_with(Vec::new).push(file)
PushInto(map, key, file) ==
    [x \in DOMAIN map \cup {key} |->
        IF x = key THEN Append(IF key \in DOMAIN map THEN map[key] ELSE <<>>, file)
        ELSE map[x]]

RECURSIVE GroupAll(_, _)
\* for file in files { ... }
GroupAll(map, fl) ==
    IF fl = <<>> THEN map
    ELSE GroupAll(PushInto(map, GroupKey(Head(fl)), Head(fl)), Tail(fl))

\* FileUtils::group_by_extension
group_by_extension(fl) == GroupAll([x \in {} |-> <<>>], fl)

\* "a.T", "b.t", "b"
GroupNames == { <<97, Dot, 84>>, <<98, Dot, 116>>, <<98>> }

\* The entries of the lists: each name as a file and as a directory.
GroupEntries ==
    { FileInfo_new(fname, fname, kind, 0) : fname \in GroupNames, kind \in {"file", "dir"} }

InitGroup ==
    /\ files \in SeqsUpTo(GroupEntries, MaxFiles)
    /\ groups = [x \in {} |-> <<>>]
    /\ pc = "ready"
    /\ PureIdle
    /\ ListingIdle
    /\ FormatIdle
    /\ IoIdle

CallGroupByExtension ==
    /\ pc = "ready"
    /\ groups' = group_by_extension(files)
    /\ pc' = "done"
    /\ UNCHANGED <<files, pureVars, listVars, formatVars, ioVars>>

NextGroup == CallGroupByExtension

SpecGroup == InitGroup /\ [][NextGroup]_vars

(***************************************************************************)
(* SpecFormat: format_bytes.  A u64 is the sequence of its digits in base  *)
(* 1024, lowest first, with no leading zero digit (zero is <<0>>); the     *)
(* f64 `size` of the loop is the number divided by 1024^unit_index, exact  *)
(* for the numbers below 2^53.                                             *)
(***************************************************************************)
UnitBase == 1024

\* const UNITS
Units == <<"B", "KB", "MB", "GB", "TB">>

RECURSIVE MulCarry(_, _, _)
\* digits * m + carry, one digit longer than digits.
MulCarry(digits, m, carry) ==
    IF digits = <<>> THEN <<carry>>
    ELSE LET v == Head(digits) * m + carry
         IN  <<v % UnitBase>> \o MulCarry(Tail(digits), m, v \div UnitBase)

RECURSIVE IntOf(_)
\* The integer a short sequence of digits stands for.
IntOf(digits) ==
    IF digits = <<>> THEN 0 ELSE Head(digits) + UnitBase * IntOf(Tail(digits))

RECURSIVE ScaleDown(_, _)
\* while size >= 1024.0 && unit_index < UNITS.len() - 1: the final unit_index.
ScaleDown(b, unit_index) ==
    IF Len(b) - unit_index >= 2 /\ unit_index < Len(Units) - 1
    THEN ScaleDown(b, unit_index + 1)
    ELSE unit_index

\* The mutant: the decimals beyond the second are cut off.
Hundredths_cut(b, k) ==
    IntOf(SubSeq(b, k + 1, Len(b))) * 100 + MulCarry(SubSeq(b, 1, k), 100, 0)[k + 1]

\* format!("{:.2}", size) for size = b / 1024^k, in hundredths: the exact
\* value rounded to the nearest hundredth, a tie to the even one.
Hundredths(b, k) ==
    LET whole == IntOf(SubSeq(b, k + 1, Len(b)))
        scaled == MulCarry(SubSeq(b, 1, k), 100, 0)
        rest == SubSeq(scaled, 1, k - 1)
        over == scaled[k] > UnitBase \div 2
                  \/ (scaled[k] = UnitBase \div 2 /\ \E i \in 1..(k - 1) : rest[i] # 0)
        tie == scaled[k] = UnitBase \div 2 /\ \A i \in 1..(k - 1) : rest[i] = 0
        up == over \/ (tie /\ scaled[k + 1] % 2 = 1)
    IN  whole * 100 + scaled[k + 1] + (IF up THEN 1 ELSE 0)

\* FileUtils::format_bytes: the rendered number (its integer part and, when
\* printed with decimals, its two decimal digits) and the unit.
format_bytes(b) ==
    IF b = <<0>> THEN [whole |-> 0, decimals |-> None, unit |-> "B"]
    ELSE LET unit_index == ScaleDown(b, 0)
         IN  IF unit_index = 0
             THEN [whole |-> IntOf(b), decimals |-> None, unit |-> Units[unit_index + 1]]
             ELSE LET h == Hundredths(b, unit_index)
                  IN  [whole |-> h \div 100, decimals |-> Some(h % 100),
                       unit |-> Units[unit_index + 1]]

\* The digits the numbers of the model are made of.
FormatDigits == {0, 1, 128, 512, 1023}

\* The numbers below 2^53 = 8 * 1024^5 with these digits.
FormatInputs ==
    { d \in SeqsUpTo(FormatDigits, 6) :
        /\ d # <<>>
        /\ Len(d) > 1 => d[Len(d)] # 0
        /\ Len(d) = 6 => d[6] < 8 }

InitFormat ==
    /\ bytes \in FormatInputs
    /\ formatted = None
    /\ pc = "ready"
    /\ PureIdle
    /\ ListingIdle
    /\ GroupIdle
    /\ IoIdle

CallFormatBytes ==
    /\ pc = "ready"
    /\ formatted' = Some(format_bytes(bytes))
    /\ pc' = "done"
    /\ UNCHANGED <<bytes, pureVars, listVars, groupVars, ioVars>>

NextFormat == CallFormatBytes

SpecFormat == InitFormat /\ [][NextFormat]_vars

(***************************************************************************)
(* SpecIO: the read, write and update operations and list_all, called in   *)
(* any order on one filesystem.  The filesystem has three paths below its  *)
(* root 0: 1 and 3 in the root, 2 inside 1.  A path holds nothing, a       *)
(* directory or a file with its bytes.  FileUtils keeps no state: each     *)
(* operation is one call of the filesystem.                                *)
(***************************************************************************)
IoPaths == 1..3

IoParent == <<0, 1, 0>>

\* "d", "f.t", "g"
IoName == << <<100>>, <<102, Dot, 116>>, <<103>> >>

Absent == [kind |-> "absent", content |-> <<>>]
Directory == [kind |-> "dir", content |-> <<>>]
RegularFile(content) == [kind |-> "file", content |-> content]

\* The strings and the byte vectors handed to the write operations: "",
\* "a", "é", and [], [97], [195] (not UTF-8), [195, 169] (UTF-8 of "é").
IoStrings == { <<>>, <<97>>, <<233>> }
IoBytes == { <<>>, <<97>>, <<195>>, <<195, 169>> }

\* char::encode_utf8 (characters below U+10000)
Utf8Char(c) ==
    IF c < 128 THEN <<c>>
    ELSE IF c < 2048 THEN <<192 + (c \div 64), 128 + (c % 64)>>
    ELSE <<224 + (c \div 4096), 128 + ((c \div 64) % 64), 128 + (c % 64)>>

RECURSIVE as_bytes(_)
\* str::as_bytes: the UTF-8 encoding of a string.
as_bytes(s) == IF s = <<>> THEN <<>> ELSE Utf8Char(Head(s)) \o as_bytes(Tail(s))

IsContinuation(b) == b \in 128..191

RECURSIVE from_utf8(_)
\* String::from_utf8 as fs::read_to_string applies it: Some(string), or None
\* when the bytes are not UTF-8 (sequences of one to three bytes).
from_utf8(b) ==
    IF b = <<>> THEN Some(<<>>)
    ELSE LET more(c, k) ==
                 LET rest == from_utf8(SubSeq(b, k + 1, Len(b)))
                 IN  IF rest = None THEN None ELSE Some(<<c>> \o rest[1])
         IN  IF b[1] < 128 THEN more(b[1], 1)
             ELSE IF b[1] \in 194..223 /\ Len(b) >= 2 /\ IsContinuation(b[2])
                  THEN more((b[1] - 192) * 64 + (b[2] - 128), 2)
             ELSE IF b[1] \in 224..239 /\ Len(b) >= 3
                        /\ IsContinuation(b[2]) /\ IsContinuation(b[3])
                        /\ (b[1] - 224) * 4096 + (b[2] - 128) * 64 + (b[3] - 128) >= 2048
                        /\ (b[1] - 224) * 4096 + (b[2] - 128) * 64 + (b[3] - 128) \notin 55296..57343
                  THEN more((b[1] - 224) * 4096 + (b[2] - 128) * 64 + (b[3] - 128), 3)
             ELSE None

\* The directory a path lies in is there.
ParentIsDir(d, p) == IoParent[p] = 0 \/ d[IoParent[p]].kind = "dir"

\* The mutant: everything below p, at any depth.
IoChildren_deep(d, p) ==
    {n \in IoPaths :
        /\ d[n].kind # "absent"
        /\ (IoParent[n] = p \/ (IoParent[n] # 0 /\ IoParent[IoParent[n]] = p))}

\* What read_dir(p) yields.
IoChildren(d, p) == {n \in IoPaths : IoParent[n] = p /\ d[n].kind # "absent"}

\* What a call returned: Ok(value) or Err(error).
IoOk(op, p, value) ==
    Some([op |-> op, path |-> p, status |-> "ok", error |-> None, value |-> value])
IoErr(op, p, kind) ==
    Some([op |-> op, path |-> p, status |-> "err", error |-> Some(From_io_Error(kind)),
          value |-> <<>>])

\* The io::ErrorKind of opening p for writing, None when it succeeds.
OpenForWriteError(d, p) ==
    IF ~ParentIsDir(d, p) THEN Some("NotFound")
    ELSE IF d[p].kind = "dir" THEN Some("IsADirectory")
    ELSE None

\* The io::ErrorKind of opening p for reading, None when it succeeds.
OpenForReadError(d, p) ==
    IF d[p].kind = "absent" THEN Some("NotFound")
    ELSE IF d[p].kind = "dir" THEN Some("IsADirectory")
    ELSE None

\* The last write is forgotten once an operation names its path or a
\* directory above it.
Touch(targets) ==
    IF fresh # None /\ (fresh[1].path \in targets \/ IoParent[fresh[1].path] \in targets)
    THEN None ELSE fresh

\* An operation that returns no value: its effect on the disk, if any.
Update(targets, error, after, value) ==
    /\ disk' = IF error = None THEN after ELSE disk
    /\ readback' = IF error = None THEN IoOk("update", 0, value)
                   ELSE IoErr("update", 0, error[1])
    /\ fresh' = Touch(targets)
    /\ result' = NoResult
    /\ call' = PlainCall("list_all", 0)
    /\ UNCHANGED <<pc, fs, stack, trace, budget, raced, first, stats,
                   pureVars, groupVars, formatVars>>

\* The mutant: fs::write leaves what the file held in place.
Written_after(old, content) == old \o content

\* What a file holds after fs::write: the file is created or truncated.
Written(old, content) == content

\* fs::write(path, content), for write_string and write_bytes.
Write(p, content, kind, value) ==
    /\ disk' = IF OpenForWriteError(disk, p) = None
               THEN [disk EXCEPT ![p] = RegularFile(Written(disk[p].content, content))]
               ELSE disk
    /\ readback' = IF OpenForWriteError(disk, p) = None THEN IoOk("update", 0, <<>>)
                   ELSE IoErr("update", 0, OpenForWriteError(disk, p)[1])
    /\ fresh' = IF OpenForWriteError(disk, p) = None
                THEN Some([path |-> p, kind |-> kind, value |-> value])
                ELSE Touch({p})
    /\ result' = NoResult
    /\ call' = PlainCall("list_all", 0)
    /\ UNCHANGED <<pc, fs, stack, trace, budget, raced, first, stats,
                   pureVars, groupVars, formatVars>>

write_string ==
    /\ pc = "ready"
    /\ \E p \in IoPaths, content \in IoStrings : Write(p, as_bytes(content), "string", content)

write_bytes ==
    /\ pc = "ready"
    /\ \E p \in IoPaths, content \in IoBytes : Write(p, content, "bytes", content)

\* A call that returns a value and changes nothing.
Read(answer) ==
    /\ readback' = answer
    /\ result' = NoResult
    /\ call' = PlainCall("list_all", 0)
    /\ UNCHANGED <<disk, fresh, pc, fs, stack, trace, budget, raced, first, stats,
                   pureVars, groupVars, formatVars>>

read_to_string ==
    /\ pc = "ready"
    /\ \E p \in IoPaths :
           Read(IF OpenForReadError(disk, p) # None
                THEN IoErr("read_to_string", p, OpenForReadError(disk, p)[1])
                ELSE IF from_utf8(disk[p].content) = None
                     THEN IoErr("read_to_string", p, "InvalidData")
                ELSE IoOk("read_to_string", p, from_utf8(disk[p].content)[1]))

read_to_bytes ==
    /\ pc = "ready"
    /\ \E p \in IoPaths :
           Read(IF OpenForReadError(disk, p) # None
                THEN IoErr("read_to_bytes", p, OpenForReadError(disk, p)[1])
                ELSE IoOk("read_to_bytes", p, disk[p].content))

\* OpenOptions::new().create(true).append(true).open(path)?, then write_all.
append_string ==
    /\ pc = "ready"
    /\ \E p \in IoPaths, content \in IoStrings :
           /\ Len(disk[p].content) + Len(as_bytes(content)) <= MaxContent
           /\ Update({p}, OpenForWriteError(disk, p),
                     [disk EXCEPT ![p] = RegularFile(disk[p].content \o as_bytes(content))],
                     <<>>)

\* fs::create_dir_all(path): the missing directories above path are made too.
create_directory ==
    /\ pc = "ready"
    /\ \E p \in IoPaths :
           LET up == IoParent[p]
               error == IF disk[p].kind = "file" THEN Some("AlreadyExists")
                        ELSE IF up # 0 /\ disk[up].kind = "file" THEN Some("NotADirectory")
                        ELSE None
           IN  Update({p}, error,
                      [q \in IoPaths |-> IF q = p \/ q = up THEN Directory ELSE disk[q]],
                      <<>>)

\* fs::remove_file(path)
remove_file ==
    /\ pc = "ready"
    /\ \E p \in IoPaths :
           Update({p},
                  IF disk[p].kind = "absent" THEN Some("NotFound")
                  ELSE IF disk[p].kind = "dir" THEN Some("IsADirectory")
                  ELSE None,
                  [disk EXCEPT ![p] = Absent],
                  <<>>)

\* fs::remove_dir(path): an empty directory only.
remove_directory ==
    /\ pc = "ready"
    /\ \E p \in IoPaths :
           Update({p},
                  IF disk[p].kind = "absent" THEN Some("NotFound")
                  ELSE IF disk[p].kind = "file" THEN Some("NotADirectory")
                  ELSE IF IoChildren(disk, p) # {} THEN Some("DirectoryNotEmpty")
                  ELSE None,
                  [disk EXCEPT ![p] = Absent],
                  <<>>)

\* fs::remove_dir_all(path): the directory and what is inside.
remove_directory_recursive ==
    /\ pc = "ready"
    /\ \E p \in IoPaths :
           Update({p},
                  IF disk[p].kind = "absent" THEN Some("NotFound")
                  ELSE IF disk[p].kind = "file" THEN Some("NotADirectory")
                  ELSE None,
                  [q \in IoPaths |-> IF q = p \/ IoParent[q] = p THEN Absent ELSE disk[q]],
                  <<>>)

\* fs::copy(from, to): from is a regular file, to is created or truncated;
\* the call returns the number of bytes copied.
copy_file ==
    /\ pc = "ready"
    /\ \E from \in IoPaths, to \in IoPaths :
           /\ from # to
           /\ Update({to},
                     IF disk[from].kind = "absent" THEN Some("NotFound")
                     ELSE IF disk[from].kind = "dir" THEN Some("InvalidInput")
                     ELSE OpenForWriteError(disk, to),
                     [disk EXCEPT ![to] = RegularFile(disk[from].content)],
                     <<Len(disk[from].content)>>)

\* fs::rename(from, to), for a file or an empty directory: to is replaced
\* when it is of the same kind (a directory, when empty).
move_item ==
    /\ pc = "ready"
    /\ \E from \in IoPaths, to \in IoPaths :
           /\ from # to
           /\ IoChildren(disk, from) = {}
           /\ Update({from, to},
                     IF disk[from].kind = "absent" THEN Some("NotFound")
                     ELSE IF ~ParentIsDir(disk, to) THEN Some("NotFound")
                     ELSE IF IoParent[to] = from THEN Some("InvalidInput")
                     ELSE IF disk[from].kind = "file" /\ disk[to].kind = "dir"
                          THEN Some("IsADirectory")
                     ELSE IF disk[from].kind = "dir" /\ disk[to].kind = "file"
                          THEN Some("NotADirectory")
                     ELSE IF IoChildren(disk, to) # {} THEN Some("DirectoryNotEmpty")
                     ELSE None,
                     [disk EXCEPT ![to] = disk[from], ![from] = Absent],
                     <<>>)

\* FileInfo::new(path) on a path of the disk; the size of a file is the
\* number of its bytes.
IoInfo(d, n) ==
    FileInfo_new(n, IoName[n], d[n].kind,
                 IF d[n].kind = "file" THEN Len(d[n].content) ELSE 0)

\* The ways to enumerate a set of paths.
Orders(S) ==
    { o \in [1..Cardinality(S) -> S] : \A i, j \in 1..Cardinality(S) : o[i] = o[j] => i = j }

\* list_all(dir) as one step: read_dir, then FileInfo::new on each entry
\* in the order of the enumeration.
list_all_on_disk ==
    /\ pc = "ready"
    /\ \E p \in {0} \cup IoPaths :
           /\ IF p # 0 /\ disk[p].kind # "dir"
              THEN result' = Propagate(IF disk[p].kind = "absent" THEN "NotFound"
                                       ELSE "NotADirectory", <<>>)
              ELSE \E o \in Orders(IoChildren(disk, p)) :
                       result' = Ok([i \in 1..Len(o) |-> IoInfo(disk, o[i])])
           /\ call' = PlainCall("list_all", p)
           /\ readback' = None
           /\ UNCHANGED <<disk, fresh, pc, fs, stack, trace, budget, raced, first, stats,
                          pureVars, groupVars, formatVars>>

InitIO ==
    /\ disk = [p \in IoPaths |-> Absent]
    /\ fresh = None
    /\ readback = None
    /\ pc = "ready"
    /\ PureIdle
    /\ ListingIdle
    /\ GroupIdle
    /\ FormatIdle

NextIO ==
    \/ write_string
    \/ write_bytes
    \/ read_to_string
    \/ read_to_bytes
    \/ append_string
    \/ create_directory
    \/ remove_file
    \/ remove_directory
    \/ remove_directory_recursive
    \/ copy_file
    \/ move_item
    \/ list_all_on_disk

SpecIO == InitIO /\ [][NextIO]_vars

(***************************************************************************)
(* SpecLoop: one recursive list_with_filter call on a filesystem that may  *)
(* hold symbolic links to ancestors.  The code is sequential: a call that  *)
(* can take a step takes it.                                               *)
(***************************************************************************)
LoopCalls ==
    { FilterCall(0, [DefaultFilter EXCEPT !.recursive = TRUE]),
      FilterCall(0, [DefaultFilter EXCEPT !.recursive = TRUE,
                                          !.include_directories = FALSE]) }

InitLoop ==
    /\ PureIdle
    /\ Quiet
    /\ pc = "ready"
    /\ fs \in LoopFilesystems
    /\ call \in LoopCalls
    /\ stack = <<>>
    /\ trace = <<>>
    /\ result = NoResult
    /\ budget = 0
    /\ raced = None
    /\ first = NoResult
    /\ stats = DirectoryStats_default

NextLoop ==
    \/ Call_list_with_filter
    \/ ReadDir
    \/ ReadDirNext
    \/ StatEntry
    \/ ReturnFrame

SpecLoop == InitLoop /\ [][NextLoop]_vars /\ WF_vars(NextLoop)

(***************************************************************************)
(* SpecFilter: matches_filter applied to every entry and filter of the     *)
(* bounded sets.                                                           *)
(***************************************************************************)
\* "a.T", "b", ".a", "a.b.A", "A."
FilterNames == { <<97, Dot, 84>>, <<98>>, <<Dot, 97>>, <<97, Dot, 98, Dot, 65>>, <<65, Dot>> }

\* Some(vec![]), Some(["t"]), Some(["T"]), Some(["a", "b"]), Some([""])
ExtensionSets == { {}, {<<116>>}, {<<84>>}, {<<97>>, <<98>>}, {<<>>} }

OptSizes == {None} \cup {Some(n) : n \in 0..MaxSize}

Filters ==
    [ extensions : {None} \cup {Some(x) : x \in ExtensionSets},
      min_size : OptSizes,
      max_size : OptSizes,
      include_directories : BOOLEAN,
      include_files : BOOLEAN,
      recursive : BOOLEAN ]

InitFilter ==
    /\ \E fname \in FilterNames, kind \in {"file", "dir", "other"}, size \in 0..MaxSize :
          entry = FileInfo_new(<<0>>, fname, kind, size)
    /\ filter \in Filters
    /\ accepted = FALSE
    /\ name = <<>>
    /\ pattern = <<>>
    /\ matched = Returned(FALSE, 0)
    /\ pc = "ready"
    /\ ListingIdle
    /\ Quiet

CallMatchesFilter ==
    /\ pc = "ready"
    /\ accepted' = matches_filter(entry, filter)
    /\ pc' = "done"
    /\ UNCHANGED <<entry, filter, name, pattern, matched, listVars, groupVars, formatVars, ioVars>>

NextFilter == CallMatchesFilter

SpecFilter == InitFilter /\ [][NextFilter]_vars

(***************************************************************************)
(* SpecPattern: matches_pattern applied to every name and pattern of the   *)
(* bounded sets.                                                           *)
(***************************************************************************)
\* "*a", "**a", "***a", ...: runs of consecutive `*` before a literal.
StarRuns == { [i \in 1..(k + 1) |-> IF i <= k THEN Star ELSE 97] : k \in 1..MaxStars }

InitPattern ==
    /\ name \in SeqsUpTo(NameChars, MaxNameLen)
    /\ pattern \in SeqsUpTo(PatternChars, MaxPatLen) \cup StarRuns
    /\ matched = Returned(FALSE, 0)
    /\ entry = None
    /\ filter = None
    /\ accepted = FALSE
    /\ pc = "ready"
    /\ ListingIdle
    /\ Quiet

CallMatchesPattern ==
    /\ pc = "ready"
    /\ matched' = matches_pattern(name, pattern)
    /\ pc' = "done"
    /\ UNCHANGED <<entry, filter, accepted, name, pattern, listVars, groupVars, formatVars, ioVars>>

NextPattern == CallMatchesPattern

SpecPattern == InitPattern /\ [][NextPattern]_vars

(***************************************************************************)
(* C1: matches_filter(entry, filter) is true exactly when all five clauses *)
(* hold: (not a file or include_files), (not a directory or                *)
(* include_directories), (extensions unset, or not a file, or the entry    *)
(* has an extension equal, ignoring case, to a member of extensions),      *)
(* (min_size unset or size >= min_size), (max_size unset or size <=        *)
(* max_size).                                                              *)
(***************************************************************************)
EqIgnoreCase(s, t) ==
    /\ Len(s) = Len(t)
    /\ \A i \in 1..Len(s) : ToLowerChar(s[i]) = ToLowerChar(t[i])

C1_FilterIsConjunction ==
    pc = "done" =>
        (accepted <=>
            /\ (~entry.is_file \/ filter.include_files)
            /\ (~entry.is_directory \/ filter.include_directories)
            /\ \/ filter.extensions = None
               \/ ~entry.is_file
               \/ /\ entry.extension # None
                  /\ \E x \in filter.extensions[1] : EqIgnoreCase(x, entry.extension[1])
            /\ (filter.min_size = None \/ entry.size >= filter.min_size[1])
            /\ (filter.max_size = None \/ entry.size <= filter.max_size[1]))

\* A directory accepted under an extension set none of whose members it
\* has, with its size equal to both bounds.
C1_Witness ==
    /\ pc = "done"
    /\ accepted
    /\ entry.is_directory
    /\ filter.extensions = Some({<<116>>})
    /\ entry.extension = None
    /\ filter.min_size = Some(entry.size)
    /\ filter.max_size = Some(entry.size)

(***************************************************************************)
(* C2: for every name and every pattern containing `*` or `?`,             *)
(* matches_pattern returns true exactly when the whole lowercased name     *)
(* matches the whole lowercased pattern under the reference wildcard       *)
(* semantics (`*` any sequence of characters, `?` exactly one character,   *)
(* any other character itself).                                            *)
(***************************************************************************)
RECURSIVE RefMatch(_, _)
\* The reference semantics, over characters.
RefMatch(t, p) ==
    IF p = <<>> THEN t = <<>>
    ELSE IF Head(p) = Star
         THEN RefMatch(t, Tail(p)) \/ (t # <<>> /\ RefMatch(Tail(t), p))
    ELSE /\ t # <<>>
         /\ (Head(p) = Question \/ Head(p) = Head(t))
         /\ RefMatch(Tail(t), Tail(p))

HasWildcard(p) == Contains(p, Star) \/ Contains(p, Question)

C2_WildcardIsReference ==
    (pc = "done" /\ HasWildcard(pattern)) =>
        /\ ~matched.panic
        /\ matched.val = RefMatch(to_lowercase(name), to_lowercase(pattern))

(***************************************************************************)
(* C3: for every pattern with neither `*` nor `?`, matches_pattern is true *)
(* exactly when name and pattern are equal ignoring case; the pattern `*`  *)
(* matches every name, the empty name included.                            *)
(***************************************************************************)
C3_LiteralIsEqualIgnoringCase ==
    pc = "done" =>
        /\ ~HasWildcard(pattern) =>
              (~matched.panic /\ matched.val = EqIgnoreCase(name, pattern))
        /\ pattern = <<Star>> => (~matched.panic /\ matched.val)

\* A case variant of a literal with a two-byte character is matched.
C3_Witness ==
    /\ pc = "done"
    /\ pattern = <<97, 233>>
    /\ name = <<65, 201>>
    /\ ~matched.panic
    /\ matched.val

(***************************************************************************)
(* Vocabulary of the listing claims.                                       *)
(***************************************************************************)
\* The entries a call has to visit: the children of its directory, or
\* everything below it when its loop recurses.
Scope == IF call.lister = "recursive" THEN Descendants(fs, call.dir)
         ELSE Children(fs, call.dir)

Returns == pc = "done" /\ result.status = "ok"

ResultPaths == [i \in 1..Len(result.items) |-> result.items[i].path]

InResult(n) == \E i \in 1..Len(result.items) : result.items[i].path = n

InTrace(n) == \E i \in 1..Len(trace) : trace[i] = n

TracePos(n) == CHOOSE i \in 1..Len(trace) : trace[i] = n

\* The history names every entry in scope once: it is the order in which
\* the filesystem enumerated them.
TraceIsScope ==
    /\ {trace[i] : i \in 1..Len(trace)} = Scope
    /\ Len(trace) = Cardinality(Scope)

(***************************************************************************)
(* C4: with recursive = true, list_with_filter returns every entry below   *)
(* the root that satisfies matches_filter, also when ancestors of the      *)
(* entry below the root were rejected by the filter.                       *)
(***************************************************************************)
C4_RejectedDirectoriesAreWalked ==
    (Returns /\ call.op = "list_with_filter" /\ call.filter.recursive) =>
        \A n \in Descendants(fs, call.dir) :
            matches_filter(InfoOf(fs, n), call.filter) => InResult(n)

\* An entry is returned whose parent and grandparent, both below the root,
\* were rejected by the size bounds (the filter includes directories).
C4_Witness ==
    /\ Returns
    /\ call.op = "list_with_filter"
    /\ call.filter.recursive
    /\ call.filter.include_directories
    /\ InResult(5) /\ ~InResult(3) /\ ~InResult(1)

(***************************************************************************)
(* C5: the result of a recursive listing is in pre-order: an ancestor      *)
(* comes before its descendants, and the returned descendants of a child   *)
(* directory come before every entry that comes from a sibling enumerated  *)
(* later.                                                                  *)
(***************************************************************************)
C5_PreOrder ==
    (Returns /\ call.lister = "recursive") =>
        \A i, j \in 1..Len(result.items) :
            LET a == result.items[i].path
                b == result.items[j].path
            IN  /\ IsBelow(b, a) => i < j
                /\ \A c, sib \in Nodes :
                      ( /\ c # sib /\ Parent[c] = Parent[sib]
                        /\ InTrace(c) /\ InTrace(sib) /\ TracePos(c) < TracePos(sib)
                        /\ IsBelow(a, c)
                        /\ (b = sib \/ IsBelow(b, sib)) ) => i < j

\* All five entries are returned, over three levels, with a directory
\* enumerated before a sibling at two of the levels.
C5_Witness ==
    /\ Returns
    /\ call.lister = "recursive"
    /\ Len(result.items) = 5
    /\ TracePos(1) < TracePos(2)
    /\ TracePos(3) < TracePos(4)

(***************************************************************************)
(* C6: listing is all-or-nothing: when the stat of an entry in scope       *)
(* fails, or in recursive mode a nested directory cannot be opened, the    *)
(* call returns an error and no entries.                                   *)
(***************************************************************************)
C6_AllOrNothing ==
    pc = "done" =>
        ( ( \/ \E n \in Scope : fs[n] = "broken"
            \/ call.lister = "recursive" /\ \E n \in Scope : fs[n] = "locked" )
          => (result.status = "err" /\ result.items = <<>>) )

\* A recursive listing that had collected three entries when a nested
\* directory could not be opened.
C6_Witness ==
    /\ pc = "done"
    /\ call.op = "list_with_filter"
    /\ call.filter = [DefaultFilter EXCEPT !.recursive = TRUE]
    /\ result.status = "err"
    /\ result.error = Some("PermissionDenied")
    /\ result.items = <<>>
    /\ Len(trace) >= 3

(***************************************************************************)
(* C7: when another process removes an entry after the listing enumerated  *)
(* it and before the listing stat'ed it, the call returns a NotFound error *)
(* and visits nothing more; it never returns a successful result.          *)
(***************************************************************************)
C7_RaceIsNotFound ==
    raced # None =>
        /\ Len(trace) = raced[1].seen
        /\ ~InTrace(raced[1].node)
        /\ pc = "running" => Top.cur = Some(raced[1].node)
        /\ pc = "done" =>
              /\ result.status = "err"
              /\ result.error = Some("NotFound")
              /\ result.items = <<>>

\* The call ended on the race with entries visited before it and an entry
\* of its directory never visited.
C7_Witness ==
    /\ pc = "done"
    /\ raced # None
    /\ result.error = Some("NotFound")
    /\ Len(trace) >= 1
    /\ \E n \in Children(fs, call.dir) : ~InTrace(n)

(***************************************************************************)
(* C8: find_by_name returns exactly the subsequence, in the same order, of *)
(* the unfiltered listing of its directory (every entry in scope, in       *)
(* enumeration order) made of the entries whose name satisfies             *)
(* matches_pattern; files and directories are both eligible.               *)
(***************************************************************************)
C8_FindByNameIsFilteredListing ==
    (Returns /\ call.op = "find_by_name") =>
        /\ TraceIsScope
        /\ result.items =
              SelectSeq([i \in 1..Len(trace) |-> InfoOf(fs, trace[i])],
                        LAMBDA it : matches_pattern(it.name, call.pattern).val)

\* "*.t" without recursion returns a directory and leaves out an entry.
C8_Witness ==
    /\ Returns
    /\ call.op = "find_by_name"
    /\ call.lister = "list_all"
    /\ InResult(1) /\ fs[1] = "dir"
    /\ \E n \in Scope : ~InResult(n)

(***************************************************************************)
(* C9: find_by_extension returns exactly the entries in scope that are     *)
(* files and whose extension equals ext ignoring case, in enumeration      *)
(* order; never a directory, an entry without extension or an entry that   *)
(* is not a file.                                                          *)
(***************************************************************************)
HasExtension(n, ext) ==
    /\ PathExtension(NodeName[n]) # None
    /\ EqIgnoreCase(PathExtension(NodeName[n])[1], ext)

C9_FindByExtensionIsFilesWithExt ==
    (Returns /\ call.op = "find_by_extension") =>
        /\ TraceIsScope
        /\ ResultPaths =
              SelectSeq(trace, LAMBDA n :
                  /\ fs[n] = "file"
                  /\ \E ext \in call.filter.extensions[1] : HasExtension(n, ext))

(***************************************************************************)
(* C10: find_by_size returns only files, and exactly the files in scope    *)
(* whose size s satisfies (min unset or s >= min) and (max unset or        *)
(* s <= max); with recursion the files inside subdirectories are found     *)
(* and the subdirectories are not returned.                                *)
(***************************************************************************)
C10_FindBySizeIsFilesInBounds ==
    (Returns /\ call.op = "find_by_size") =>
        /\ TraceIsScope
        /\ \A i \in 1..Len(result.items) : result.items[i].is_file
        /\ ResultPaths =
              SelectSeq(trace, LAMBDA n :
                  /\ fs[n] = "file"
                  /\ (call.filter.min_size = None \/ NodeSize(n) >= call.filter.min_size[1])
                  /\ (call.filter.max_size = None \/ NodeSize(n) <= call.filter.max_size[1]))

(***************************************************************************)
(* C19: every FileInfo that FileInfo::new returns has exactly one of       *)
(* is_directory and is_file set, whatever kind of entry the stat           *)
(* succeeded on.                                                           *)
(***************************************************************************)
C19_ExactlyOneOfFileAndDirectory ==
    pc = "done" => (entry.is_directory # entry.is_file)

(***************************************************************************)
(* C20: one matches_pattern call makes at most (n + 1) * (m + 1)           *)
(* invocations of wildcard_match_recursive, n and m the numbers of         *)
(* characters of the name and of the pattern; stated here for the names    *)
(* and patterns of single-byte characters, where the matcher's indices     *)
(* are right.                                                              *)
(***************************************************************************)
C20_PolynomialWork ==
    (pc = "done" /\ ByteLen(name) = Len(name) /\ ByteLen(pattern) = Len(pattern)) =>
        matched.calls <= (Len(name) + 1) * (Len(pattern) + 1)

(***************************************************************************)
(* C11: for a directory D below the root R and a filter F, every entry the *)
(* listing of D under F without recursion returns is also in what the      *)
(* listing of R under F with recursion returns, provided that second       *)
(* listing succeeds.                                                       *)
(***************************************************************************)
FirstIsInSecond ==
    \A i \in 1..Len(first.items) :
        \E j \in 1..Len(result.items) : result.items[j] = first.items[i]

C11_FlatIsInRecursive ==
    (pc = "done" /\ first.status = "ok" /\ result.status = "ok") => FirstIsInSecond

\* The claim as it stands: whatever the recursive listing of R returns.
C11_FlatIsInRecursive_Always ==
    (pc = "done" /\ first.status = "ok") => FirstIsInSecond

\* The files of D are found through D although the filter rejects D itself.
C11_Witness ==
    /\ pc = "done"
    /\ first.status = "ok"
    /\ result.status = "ok"
    /\ first.items # <<>>
    /\ ~call.filter.include_directories
    /\ Len(result.items) > Len(first.items)

(***************************************************************************)
(* C12: directory_stats(dir) returns file_count = the number of file       *)
(* entries of the recursive listing of dir, total_size = the sum of the    *)
(* sizes of those files and directory_count = the number of directory      *)
(* entries of that listing; so file_count + directory_count is the length  *)
(* of the listing and directory_count counts directories only.             *)
(***************************************************************************)
\* The recursive listing directory_stats folds: every entry below the
\* directory, in the order of the walk.
Listing == [i \in 1..Len(trace) |-> InfoOf(fs, trace[i])]

FilesOf(items) == SelectSeq(items, LAMBDA it : it.is_file)

RECURSIVE SumOfSizes(_)
SumOfSizes(items) ==
    IF items = <<>> THEN 0 ELSE Head(items).size + SumOfSizes(Tail(items))

C12_CountsAndTotal ==
    (Returns /\ call.op = "directory_stats") =>
        /\ TraceIsScope
        /\ stats.file_count = Len(FilesOf(Listing))
        /\ stats.total_size = SumOfSizes(FilesOf(Listing))
        /\ stats.directory_count =
              Cardinality({i \in 1..Len(trace) : StatKind(fs[trace[i]]) = "dir"})
        /\ stats.file_count + stats.directory_count = Len(Listing)

(***************************************************************************)
(* C13: after directory_stats over a listing that holds at least one file, *)
(* largest_file_size is the greatest size among the files and              *)
(* largest_file_name is the name of the first file of the listing, in the  *)
(* order of the walk, that has this size.                                  *)
(***************************************************************************)
MaxFileSize(items) ==
    CHOOSE s \in {FilesOf(items)[i].size : i \in 1..Len(FilesOf(items))} :
        \A i \in 1..Len(FilesOf(items)) : FilesOf(items)[i].size <= s

FirstOfSize(items, s) ==
    LET fl == FilesOf(items)
        i == CHOOSE k \in 1..Len(fl) :
                 /\ fl[k].size = s
                 /\ \A j \in 1..(k - 1) : fl[j].size # s
    IN  fl[i]

C13_LargestIsFirstMaximum ==
    (Returns /\ call.op = "directory_stats" /\ FilesOf(Listing) # <<>>) =>
        /\ stats.largest_file_size = MaxFileSize(Listing)
        /\ stats.largest_file_name = Some(FirstOfSize(Listing, MaxFileSize(Listing)).name)

(***************************************************************************)
(* C14: group_by_extension puts every file of its input in exactly one     *)
(* group, the one keyed by the file's extension, or by the sentinel when   *)
(* the file has no extension; inside a group the files are in the order    *)
(* of the input; no directory entry is in any group.                       *)
(***************************************************************************)
C14_GroupsAreTheFilesByKey ==
    pc = "done" =>
        /\ DOMAIN groups = {GroupKey(FilesOf(files)[i]) : i \in 1..Len(FilesOf(files))}
        /\ \A k \in DOMAIN groups :
              groups[k] = SelectSeq(files, LAMBDA f : f.is_file /\ GroupKey(f) = k)

(***************************************************************************)
(* C16: format_bytes(b) renders, for b < 1024, the integer b followed by   *)
(* " B" ("0 B" for zero); for b >= 1024, b / 1024^k with exactly two       *)
(* decimals (the nearest hundredth) and the unit of index k, k the         *)
(* largest index <= 4 with 1024^k <= b.  1024 gives "1.00 KB", 1536 gives  *)
(* "1.50 KB", 1048576 gives "1.00 MB".                                     *)
(***************************************************************************)
\* 1024^k <= b
GePow(b, k) == \E i \in (k + 1)..Len(b) : b[i] # 0

LargestUnit(b) ==
    CHOOSE k \in 0..4 : GePow(b, k) /\ \A j \in 0..4 : GePow(b, j) => j <= k

RECURSIVE ToDigits(_)
ToDigits(n) ==
    IF n < UnitBase THEN <<n>> ELSE <<n % UnitBase>> \o ToDigits(n \div UnitBase)

\* n * 1024^k
Shifted(n, k) == [i \in 1..k |-> 0] \o ToDigits(n)

DigitAt(x, i) == IF i <= Len(x) THEN x[i] ELSE 0

RECURSIVE LeFrom(_, _, _)
LeFrom(x, y, i) ==
    IF i = 0 THEN TRUE
    ELSE IF DigitAt(x, i) < DigitAt(y, i) THEN TRUE
    ELSE IF DigitAt(x, i) > DigitAt(y, i) THEN FALSE
    ELSE LeFrom(x, y, i - 1)

\* x <= y, for two sequences of digits.
BigLE(x, y) == LeFrom(x, y, IF Len(x) > Len(y) THEN Len(x) ELSE Len(y))

\* v hundredths is b / 1024^k to the nearest hundredth:
\* (2v - 1) * 1024^k <= 200 * b <= (2v + 1) * 1024^k.
NearestHundredth(v, b, k) ==
    /\ BigLE(Shifted(2 * v - 1, k), MulCarry(b, 200, 0))
    /\ BigLE(MulCarry(b, 200, 0), Shifted(2 * v + 1, k))

C16_FormatBytes ==
    pc = "done" =>
        LET out == formatted[1]
        IN  /\ ~GePow(bytes, 1) =>
                  out = [whole |-> bytes[1], decimals |-> None, unit |-> "B"]
            /\ GePow(bytes, 1) =>
                  /\ out.unit = Units[LargestUnit(bytes) + 1]
                  /\ out.decimals # None
                  /\ out.decimals[1] \in 0..99
                  /\ NearestHundredth(out.whole * 100 + out.decimals[1],
                                      bytes, LargestUnit(bytes))
            /\ bytes = <<0, 1>> => out = [whole |-> 1, decimals |-> Some(0), unit |-> "KB"]
            /\ bytes = <<512, 1>> => out = [whole |-> 1, decimals |-> Some(50), unit |-> "KB"]
            /\ bytes = <<0, 0, 1>> => out = [whole |-> 1, decimals |-> Some(0), unit |-> "MB"]

\* 1024^5 + 1023 * 1024^4 + ... bytes: the unit stays TB, the number is
\* 2047.9999..., rendered "2048.00 TB".
C16_Witness ==
    /\ pc = "done"
    /\ bytes = <<1023, 1023, 1023, 1023, 1023, 1>>
    /\ formatted = Some([whole |-> 2048, decimals |-> Some(0), unit |-> "TB"])

(***************************************************************************)
(* C15: after a successful write_string(path, s), with no operation on     *)
(* that path in between, read_to_string(path) returns exactly s, whatever  *)
(* the file held before; the same for write_bytes(path, b) and             *)
(* read_to_bytes(path).                                                    *)
(***************************************************************************)
C15_WriteThenRead ==
    (/\ readback # None
     /\ fresh # None
     /\ readback[1].path = fresh[1].path
     /\ \/ readback[1].op = "read_to_string" /\ fresh[1].kind = "string"
        \/ readback[1].op = "read_to_bytes" /\ fresh[1].kind = "bytes")
        => /\ readback[1].status = "ok"
           /\ readback[1].value = fresh[1].value

\* "é" written to the file inside the directory and read back; the file
\* holds two bytes for the one character.
C15_Witness ==
    /\ fresh = Some([path |-> 2, kind |-> "string", value |-> <<233>>])
    /\ readback # None
    /\ readback[1].op = "read_to_string"
    /\ readback[1].path = 2
    /\ readback[1].value = <<233>>
    /\ Len(disk[2].content) = 2

(***************************************************************************)
(* C18: nothing is cached between calls: after any sequence of             *)
(* write_string, append_string, create_directory, remove_file,             *)
(* remove_directory, remove_directory_recursive, copy_file and move_item,  *)
(* list_all(D) returns exactly the children D has at the moment of the     *)
(* call, each once, each with the kind and the size it has at that moment. *)
(***************************************************************************)
C18_ListAllIsCurrent ==
    result.status = "ok" =>
        LET now == {n \in IoPaths : IoParent[n] = call.dir /\ disk[n].kind # "absent"}
        IN  /\ {result.items[i].path : i \in 1..Len(result.items)} = now
            /\ Len(result.items) = Cardinality(now)
            /\ \A i \in 1..Len(result.items) :
                  LET it == result.items[i]
                  IN  /\ it.is_file <=> disk[it.path].kind = "file"
                      /\ it.is_directory <=> disk[it.path].kind = "dir"
                      /\ it.is_file => it.size = Len(disk[it.path].content)

\* The root lists a directory and a file of two bytes, both made since the
\* filesystem was empty.
C18_Witness ==
    /\ result.status = "ok"
    /\ call.dir = 0
    /\ Len(result.items) = 2
    /\ \E i \in 1..2 : result.items[i].is_directory
    /\ \E i \in 1..2 : result.items[i].is_file /\ result.items[i].size = 2
    /\ disk[2].kind = "file"

(***************************************************************************)
(* C17: every list_with_filter call with recursive = true eventually       *)
(* returns, with a result or with an error, whatever the filesystem holds, *)
(* also when an entry is a symbolic link to a directory above it.          *)
(***************************************************************************)
C17_RecursiveListingReturns == <>(pc = "done")

\* The walk went through a link to the root and came to the same entry
\* again, then ended with the error of the stat that met too many links.
C17_Witness ==
    /\ pc = "done"
    /\ result.status = "err"
    /\ result.error = Some("IoError")
    /\ fs[4] = "loop"
    /\ \E i, j \in 1..Len(trace) : i < j /\ trace[i] = 4 /\ trace[j] = 4

(***************************************************************************)
(* C21: in the extensions table that directory_stats returns, the count    *)
(* under each extension is the number of files of the recursive listing    *)
(* that have this extension, lowercased; a file without extension and a    *)
(* directory add to no key, so the counts sum to file_count minus the      *)
(* number of files without extension.                                      *)
(***************************************************************************)
\* The positions of the listing that hold a regular file.
FilePositions == {i \in 1..Len(trace) : StatKind(fs[trace[i]]) = "file"}

\* The lowercased extension of the entry at position i, None without one.
ExtensionAt(i) ==
    IF PathExtension(NodeName[trace[i]]) = None
    THEN None
    ELSE Some(to_lowercase(PathExtension(NodeName[trace[i]])[1]))

FilesWithExtension(ext) == {i \in FilePositions : ExtensionAt(i) = Some(ext)}

FilesWithoutExtension == {i \in FilePositions : ExtensionAt(i) = None}

RECURSIVE SumOfCounts(_, _)
SumOfCounts(map, keys) ==
    IF keys = {} THEN 0
    ELSE LET k == CHOOSE x \in keys : TRUE
         IN  map[k] + SumOfCounts(map, keys \ {k})

C21_ExtensionCounts ==
    (Returns /\ call.op = "directory_stats") =>
        /\ DOMAIN stats.extensions =
              {ExtensionAt(i)[1] : i \in FilePositions \ FilesWithoutExtension}
        /\ \A ext \in DOMAIN stats.extensions :
              stats.extensions[ext] = Cardinality(FilesWithExtension(ext))
        /\ SumOfCounts(stats.extensions, DOMAIN stats.extensions) =
              stats.file_count - Cardinality(FilesWithoutExtension)

\* The listing holds the directory "d.t", the file "A" without extension
\* and the files "É.T" and "b.t", which are counted together under "t".
C21_Witness ==
    /\ Returns /\ call.op = "directory_stats"
    /\ fs[1] = "dir" /\ fs[2] = "file" /\ fs[3] = "file" /\ fs[4] = "file"
    /\ InTrace(1) /\ InTrace(2) /\ InTrace(3) /\ InTrace(4)
    /\ DOMAIN stats.extensions = {<<116>>}
    /\ stats.extensions[<<116>>] = 2
    /\ stats.file_count = 3

(***************************************************************************)
(* C22: wildcard_match_recursive never reads pattern_chars or text_chars   *)
(* outside their length, also when the name or the pattern holds a         *)
(* character of several bytes, so matches_pattern always returns a boolean *)
(* and never panics.                                                       *)
(***************************************************************************)
C22_MatcherNeverPanics ==
    pc = "done" => ~matched.panic

\* The same for names and patterns of one-byte characters only.
OneByteOnly(s) == ByteLen(s) = Len(s)

C22_AsciiNeverPanics ==
    (pc = "done" /\ OneByteOnly(to_lowercase(name)) /\ OneByteOnly(to_lowercase(pattern))) =>
        ~matched.panic

====
